---- MODULE Spec2Model ----
(***************************************************************************)
(* Verification model of the document-to-Markdown converters               *)
(*   scripts/pdf_ocr_to_markdown.py, scripts/pptx_to_markdown.py and       *)
(*   scripts/xlsx_to_markdown.py.                                          *)
(*                                                                         *)
(* Python strings that the code inspects character by character are        *)
(* sequences of one-character strings; None is the model value None.       *)
(* Four specifications share the module:                                   *)
(*   SpecText   clean_text_for_markdown applied once and twice             *)
(*   SpecTable  convert_sheet_to_markdown / convert_table_to_markdown      *)
(*   SpecDoc    convert_pdf/pptx/xlsx_to_markdown, one unit per step       *)
(*   SpecBatch  batch_convert of the three scripts, one file per step      *)
(***************************************************************************)
EXTENDS Integers, Sequences, FiniteSets, TLC

VARIABLES
    \* SpecText
    text, once, twice, tpc,
    \* SpecTable
    tkind, grid, table_md, gpc,
    \* SpecDoc
    kind, doc, ocr_available, unit_idx, md_parts, methods_used, extracted, status,
    \* SpecBatch
    script, is_dir, folder, files, file_idx, converted, log, bstatus

vars == <<text, once, twice, tpc, tkind, grid, table_md, gpc,
          kind, doc, ocr_available, unit_idx, md_parts, methods_used, extracted,
          status, script, is_dir, folder, files, file_idx, converted, log, bstatus>>
textVars == <<text, once, twice, tpc>>
tableVars == <<tkind, grid, table_md, gpc>>
docVars == <<kind, doc, ocr_available, unit_idx, md_parts, methods_used, extracted,
             status>>
batchVars == <<script, is_dir, folder, files, file_idx, converted, log, bstatus>>

\* None is a one-element sequence holding a word no character sequence holds.
None == <<"None">>
Idle == "idle"

(***************************************************************************)
(* Bounds of the model.                                                    *)
(***************************************************************************)
MaxLen == 6
MaxRows == 2
MaxCols == 2
MaxUnits == 2
MaxFiles == 3

(***************************************************************************)
(* Python str primitives, as the scripts use them.                         *)
(***************************************************************************)
Whitespace == {" ", "\t", "\n"}

Str(S, n) == UNION {[1..k -> S] : k \in 0..n}

RECURSIVE lstrip(_)
lstrip(s) == IF s # <<>> /\ Head(s) \in Whitespace THEN lstrip(Tail(s)) ELSE s

RECURSIVE rstrip(_)
rstrip(s) ==
    IF s # <<>> /\ s[Len(s)] \in Whitespace
    THEN rstrip(SubSeq(s, 1, Len(s) - 1))
    ELSE s

strip(s) == rstrip(lstrip(s))

\* str.split(sep) for a one-character separator: always at least one piece.
RECURSIVE split(_, _)
split(s, sep) ==
    IF \E i \in 1..Len(s) : s[i] = sep
    THEN LET i == CHOOSE k \in 1..Len(s) :
                      s[k] = sep /\ \A j \in 1..(k - 1) : s[j] # sep
         IN  <<SubSeq(s, 1, i - 1)>> \o split(SubSeq(s, i + 1, Len(s)), sep)
    ELSE <<s>>

\* str.split() with no argument: the maximal runs of non-whitespace.
RECURSIVE split_ws(_)
split_ws(s) ==
    LET t == lstrip(s)
    IN  IF t = <<>> THEN <<>>
        ELSE LET n == IF \E i \in 1..Len(t) : t[i] \in Whitespace
                      THEN CHOOSE k \in 1..Len(t) :
                               t[k] \in Whitespace
                               /\ \A j \in 1..(k - 1) : t[j] \notin Whitespace
                      ELSE Len(t) + 1
             IN  <<SubSeq(t, 1, n - 1)>> \o split_ws(SubSeq(t, n, Len(t)))

\* sep.join(parts)
RECURSIVE join(_, _)
join(sep, parts) ==
    IF parts = <<>> THEN <<>>
    ELSE IF Len(parts) = 1 THEN parts[1]
    ELSE parts[1] \o sep \o join(sep, Tail(parts))

\* s.replace(old, new) for a one-character old and a string new.
RECURSIVE replace(_, _, _)
replace(s, old, new) ==
    IF s = <<>> THEN <<>>
    ELSE (IF Head(s) = old THEN new ELSE <<Head(s)>>) \o replace(Tail(s), old, new)

(***************************************************************************)
(* pdf_ocr_to_markdown.py: clean_text_for_markdown                         *)
(***************************************************************************)
\* A plausible slip: squeezing each double space once instead of split/join.
RECURSIVE squeeze_once(_)
squeeze_once(s) ==
    IF Len(s) < 2 THEN s
    ELSE IF s[1] \in Whitespace /\ s[2] \in Whitespace
         THEN <<" ">> \o squeeze_once(SubSeq(s, 3, Len(s)))
         ELSE <<s[1]>> \o squeeze_once(Tail(s))

clean_line_squeeze(line) ==
    LET l == strip(line) IN IF l = <<>> THEN <<>> ELSE squeeze_once(l)

\* The body of the first loop: one line stripped, its whitespace runs collapsed.
clean_line(line) ==
    LET l == strip(line)
    IN  IF l = <<>> THEN <<>> ELSE join(<<" ">>, split_ws(l))

RECURSIVE clean_lines(_)
clean_lines(lines) ==
    IF lines = <<>> THEN <<>>
    ELSE <<clean_line(Head(lines))>> \o clean_lines(Tail(lines))

\* The second loop: at most 2 blank lines of a run are kept.
RECURSIVE limit_blank(_, _)
limit_blank(lines, blank_count) ==
    IF lines = <<>> THEN <<>>
    ELSE IF Head(lines) = <<>>
         THEN (IF blank_count + 1 <= 2 THEN <<Head(lines)>> ELSE <<>>)
              \o limit_blank(Tail(lines), blank_count + 1)
         ELSE <<Head(lines)>> \o limit_blank(Tail(lines), 0)

clean_text_for_markdown(t) ==
    join(<<"\n">>, limit_blank(clean_lines(split(t, "\n")), 0))

(***************************************************************************)
(* SpecText: the cleaner applied to a text, then to its own result.        *)
(***************************************************************************)
TextChars == {"a", " ", "\t", "\n"}

TextIdle == text = <<>> /\ once = None /\ twice = None /\ tpc = Idle

TextInit ==
    /\ text \in Str(TextChars, MaxLen)
    /\ once = None
    /\ twice = None
    /\ tpc = "raw"

Clean ==
    /\ tpc = "raw"
    /\ once' = clean_text_for_markdown(text)
    /\ tpc' = "cleaned"
    /\ UNCHANGED <<text, twice>>
    /\ UNCHANGED <<tableVars, docVars, batchVars>>

CleanAgain ==
    /\ tpc = "cleaned"
    /\ twice' = clean_text_for_markdown(once)
    /\ tpc' = "recleaned"
    /\ UNCHANGED <<text, once>>
    /\ UNCHANGED <<tableVars, docVars, batchVars>>

TableIdle == tkind = Idle /\ grid = <<>> /\ table_md = None /\ gpc = Idle

DocIdle ==
    /\ kind = Idle /\ doc = <<>> /\ ocr_available = FALSE /\ unit_idx = 0
    /\ md_parts = <<>> /\ methods_used = <<>> /\ extracted = <<>> /\ status = Idle

BatchIdle ==
    /\ script = Idle /\ is_dir = FALSE /\ folder = <<>> /\ files = <<>>
    /\ file_idx = 0 /\ converted = <<>> /\ log = <<>> /\ bstatus = Idle

InitText == TextInit /\ TableIdle /\ DocIdle /\ BatchIdle
NextText == Clean \/ CleanAgain
SpecText == InitText /\ [][NextText]_vars

\* The longest run of blank lines among the lines of s.
RECURSIVE blank_run(_, _, _)
blank_run(lines, cur, best) ==
    IF lines = <<>> THEN best
    ELSE IF Head(lines) = <<>>
         THEN blank_run(Tail(lines), cur + 1,
                        IF cur + 1 > best THEN cur + 1 ELSE best)
         ELSE blank_run(Tail(lines), 0, best)

\* C10: cleaning an already cleaned text changes nothing, and a cleaned text
\* has no run of more than 2 consecutive blank lines.
C10_Idempotent ==
    /\ tpc \in {"cleaned", "recleaned"} =>
           blank_run(split(once, "\n"), 0, 0) <= 2
    /\ tpc = "recleaned" => twice = once

\* A text with a run of 3 or more blank lines was cleaned twice, and the
\* first pass changed it.
C10_Witness ==
    /\ tpc = "recleaned"
    /\ once # text
    /\ blank_run(split(text, "\n"), 0, 0) >= 3

(***************************************************************************)
(* xlsx_to_markdown.py: clean_cell_value, convert_sheet_to_markdown        *)
(* A worksheet is the list of rows iter_rows(values_only=True) yields:     *)
(* equally long tuples of None or a string value.                          *)
(***************************************************************************)
EscapedPipe == <<"\\", "|">>
BreakMarker == <<"<", "b", "r", ">">>
EmptySheet == <<"*", "E", "m", "p", "t", "y", " ", "s", "h", "e", "e", "t", "*">>
Dashes == <<"-", "-", "-">>

clean_cell_value(value) ==
    IF value = None THEN <<>>
    ELSE replace(replace(strip(value), "|", EscapedPipe), "\n", BreakMarker)

\* [clean_cell_value(cell) for cell in cells]
cleaned_cells(cells) == [i \in 1..Len(cells) |-> clean_cell_value(cells[i])]

\* "| " + " | ".join(cells) + " |"
table_row(cells) == <<"|", " ">> \o join(<<" ", "|", " ">>, cells) \o <<" ", "|">>

\* rows = [row for row in rows if any(cell is not None for cell in row)]
has_value(row) == \E i \in 1..Len(row) : row[i] # None
filter_rows(rows) == SelectSeq(rows, has_value)

\* len(row) - i for the first non-None cell of reversed(row); 0 when there is none.
last_value(row) ==
    IF has_value(row)
    THEN CHOOSE k \in 1..Len(row) :
             row[k] # None /\ \A j \in (k + 1)..Len(row) : row[j] = None
    ELSE 0

RECURSIVE max_cols(_)
max_cols(rows) ==
    IF rows = <<>> THEN 0
    ELSE LET m == max_cols(Tail(rows))
             l == last_value(Head(rows))
         IN  IF l > m THEN l ELSE m

\* cells = list(row[:max_cols]); while len(cells) < max_cols: cells.append(None)
pad(row, n) == [i \in 1..n |-> IF i <= Len(row) THEN row[i] ELSE None]

RECURSIVE sheet_table_rows(_, _, _)
sheet_table_rows(rows, n, row_idx) ==
    IF rows = <<>> THEN <<>>
    ELSE <<table_row(cleaned_cells(pad(Head(rows), n)))>>
         \o (IF row_idx = 0 THEN <<table_row([i \in 1..n |-> Dashes])>> ELSE <<>>)
         \o sheet_table_rows(Tail(rows), n, row_idx + 1)

\* The part convert_sheet_to_markdown appends after the "## name" header.
sheet_body(rows) ==
    IF rows = <<>> THEN EmptySheet
    ELSE LET kept == filter_rows(rows)
         IN  IF kept = <<>> THEN EmptySheet
             ELSE IF max_cols(kept) = 0 THEN EmptySheet
             ELSE join(<<"\n">>, sheet_table_rows(kept, max_cols(kept), 0))

(***************************************************************************)
(* pptx_to_markdown.py: convert_table_to_markdown                          *)
(* A slide table is the list of its rows, each the list of its cells'      *)
(* text.                                                                   *)
(***************************************************************************)
slide_cell(cell_text) == replace(strip(cell_text), "|", EscapedPipe)

RECURSIVE slide_table_rows(_, _)
slide_table_rows(rows, row_idx) ==
    IF rows = <<>> THEN <<>>
    ELSE LET cells == [i \in 1..Len(Head(rows)) |-> slide_cell(Head(rows)[i])]
         IN  <<table_row(cells)>>
             \o (IF row_idx = 0
                 THEN <<table_row([i \in 1..Len(cells) |-> Dashes])>>
                 ELSE <<>>)
             \o slide_table_rows(Tail(rows), row_idx + 1)

convert_table_to_markdown(rows) == join(<<"\n">>, slide_table_rows(rows, 0))

(***************************************************************************)
(* SpecTable: one grid handed to the table code of either script.          *)
(***************************************************************************)
PipeBreakCell == <<"a", "|", "\n", "b">>
CellTexts == {<<>>, <<" ">>, <<"a">>, PipeBreakCell}

Grids(Cells) ==
    {<<>>} \cup UNION {[1..r -> [1..c -> Cells]] : r \in 1..MaxRows, c \in 1..MaxCols}

TableInit ==
    /\ tkind \in {"xlsx", "pptx"}
    /\ grid \in (IF tkind = "xlsx" THEN Grids(CellTexts \cup {None})
                                   ELSE Grids(CellTexts))
    /\ table_md = None
    /\ gpc = "grid"

ConvertSheetGrid ==
    /\ gpc = "grid"
    /\ tkind = "xlsx"
    /\ table_md' = sheet_body(grid)
    /\ gpc' = "done"
    /\ UNCHANGED <<tkind, grid>>
    /\ UNCHANGED <<textVars, docVars, batchVars>>

ConvertSlideTable ==
    /\ gpc = "grid"
    /\ tkind = "pptx"
    /\ table_md' = convert_table_to_markdown(grid)
    /\ gpc' = "done"
    /\ UNCHANGED <<tkind, grid>>
    /\ UNCHANGED <<textVars, docVars, batchVars>>

InitTable == TableInit /\ TextIdle /\ DocIdle /\ BatchIdle
NextTable == ConvertSheetGrid \/ ConvertSlideTable
SpecTable == InitTable /\ [][NextTable]_vars

\* What the claims read off an emitted block.
RECURSIVE unescaped_pipes(_, _)
unescaped_pipes(line, escaped) ==
    IF line = <<>> THEN 0
    ELSE IF Head(line) = "\\" /\ ~escaped THEN unescaped_pipes(Tail(line), TRUE)
    ELSE (IF Head(line) = "|" /\ ~escaped THEN 1 ELSE 0)
         + unescaped_pipes(Tail(line), FALSE)

contains(s, sub) ==
    \E i \in 1..(Len(s) - Len(sub) + 1) : SubSeq(s, i, i + Len(sub) - 1) = sub

is_blank(cell) == cell = None \/ strip(cell) = <<>>
blank_row(row) == \A i \in 1..Len(row) : is_blank(row[i])
all_blank(rows) == \A r \in 1..Len(rows) : blank_row(rows[r])
data_rows(rows) == SelectSeq(rows, LAMBDA row : ~blank_row(row))

has_value_rows(rows) == \E r \in 1..Len(rows) : has_value(rows[r])

\* The effective column count: the largest index of a non-empty cell for a
\* worksheet, the number of columns for a slide table.
effective_cols ==
    IF tkind = "xlsx" THEN max_cols(filter_rows(grid))
    ELSE IF grid = <<>> THEN 0 ELSE Len(grid[1])

\* The source rows the code turns into table lines.
kept_rows == IF tkind = "xlsx" THEN filter_rows(grid) ELSE grid

is_table == gpc = "done" /\ table_md # EmptySheet /\ table_md # <<>>
table_lines == split(table_md, "\n")

\* C7: every line of an emitted table has cols+1 unescaped pipes, and the
\* block has one line per non-empty source row plus the separator, which
\* follows the first row directly.
C7_WellFormedTable ==
    is_table =>
        /\ \A i \in 1..Len(table_lines) :
               unescaped_pipes(table_lines[i], FALSE) = effective_cols + 1
        /\ Len(table_lines) = Len(data_rows(grid)) + 1
        /\ table_lines[2] = table_row([i \in 1..effective_cols |-> Dashes])

\* C8: a grid in which every cell is None or blank, a grid without rows
\* included, yields the empty-table marker.
C8_EmptyGridMarker ==
    (gpc = "done" /\ all_blank(grid)) => table_md = EmptySheet

\* C9: a cell holding a pipe and an inner line break yields one line per
\* source row, with the pipe escaped and the break as <br>.
C9_CellEscaping ==
    (gpc = "done" /\ \E r \in 1..Len(grid) : \E c \in 1..Len(grid[r]) :
                         grid[r][c] = PipeBreakCell) =>
        /\ Len(table_lines) = Len(kept_rows) + 1
        /\ \E i \in 1..Len(table_lines) :
               /\ contains(table_lines[i], EscapedPipe)
               /\ contains(table_lines[i], BreakMarker)
               /\ unescaped_pipes(table_lines[i], FALSE) = effective_cols + 1

(***************************************************************************)
(* The documents the three convert_*_to_markdown functions assemble.       *)
(* md_parts is the list the code joins with "\n\n"; a part is kept as      *)
(* [type, unit, body]: what the string is, the unit whose loop iteration   *)
(* appended it (0 for the document header), and its text where the code    *)
(* computes one.  The parts of slide_md and sheet_md, themselves joined     *)
(* with "\n\n", are appended one by one.                                   *)
(***************************************************************************)
Fault == <<"Fault">>
Part(type, unit, body) == [type |-> type, unit |-> unit, body |-> body]

Threshold == 50
Repeat(c, n) == [i \in 1..n |-> c]

(***************************************************************************)
(* pdf_ocr_to_markdown.py: extract_text_from_page                          *)
(* A page is [direct, ocr]: what page.get_text("text") returns (or Fault   *)
(* when it raises) and what rendering plus image_to_string would do:       *)
(* RenderFault, OcrFault, or the recognised text.                          *)
(***************************************************************************)
RenderFault == <<"RenderFault">>
OcrFault == <<"OcrFault">>

Extraction(t, m) == [raised |-> FALSE, text |-> t, method |-> m]
Raised == [raised |-> TRUE, text |-> <<>>, method |-> "none"]

\* The fall-through of the function: the direct text, whatever its length.
direct_result(t) == Extraction(t, IF t # <<>> THEN "text" ELSE "none")

ocr_or_direct(page, t, avail) ==
    IF avail /\ page.ocr \notin {RenderFault, OcrFault} /\ strip(page.ocr) # <<>>
    THEN Extraction(strip(page.ocr), "ocr")
    ELSE direct_result(t)

\* A plausible slip: the threshold test written >= instead of >.
extract_text_from_page_ge(page, avail) ==
    IF page.direct = Fault THEN Raised
    ELSE LET t == strip(page.direct)
         IN  IF Len(t) >= Threshold THEN Extraction(t, "text")
             ELSE ocr_or_direct(page, t, avail)

extract_text_from_page(page, avail) ==
    IF page.direct = Fault THEN Raised
    ELSE LET t == strip(page.direct)
         IN  IF Len(t) > Threshold THEN Extraction(t, "text")
             ELSE ocr_or_direct(page, t, avail)

(***************************************************************************)
(* pdf_ocr_to_markdown.py: convert_pdf_to_markdown, the body of the page   *)
(* loop after extraction.                                                  *)
(***************************************************************************)
\* A plausible slip: the page header and rule added whatever the page count.
page_parts_always_headed(t, page_num, total_pages) ==
    IF t # <<>>
    THEN <<Part("h2", page_num, <<>>),
           Part("text", page_num, clean_text_for_markdown(t)),
           Part("rule", page_num, <<>>)>>
    ELSE <<>>

\* A plausible slip: the `if text:` test left out.
page_parts_unguarded(t, page_num, total_pages) ==
    (IF total_pages > 1 THEN <<Part("h2", page_num, <<>>)>> ELSE <<>>)
    \o <<Part("text", page_num, clean_text_for_markdown(t))>>
    \o (IF total_pages > 1 THEN <<Part("rule", page_num, <<>>)>> ELSE <<>>)

page_parts(t, page_num, total_pages) ==
    IF t # <<>>
    THEN (IF total_pages > 1 THEN <<Part("h2", page_num, <<>>)>> ELSE <<>>)
         \o <<Part("text", page_num, clean_text_for_markdown(t))>>
         \o (IF total_pages > 1 THEN <<Part("rule", page_num, <<>>)>> ELSE <<>>)
    ELSE <<>>

(***************************************************************************)
(* pptx_to_markdown.py: extract_text_from_shape, convert_slide_to_markdown *)
(* A slide is [fault, title, shapes, notes]; title and notes are None when *)
(* the slide has no title shape / no notes slide; shapes are the non-title *)
(* shapes, each [text, has_table, table].                                  *)
(***************************************************************************)
extract_text_from_shape(shape) ==
    join(<<"\n">>,
         (IF strip(shape.text) # <<>> THEN <<strip(shape.text)>> ELSE <<>>)
         \o (IF shape.has_table THEN <<convert_table_to_markdown(shape.table)>>
                                ELSE <<>>))

RECURSIVE content_parts(_)
content_parts(shapes) ==
    IF shapes = <<>> THEN <<>>
    ELSE (IF extract_text_from_shape(Head(shapes)) # <<>>
          THEN <<extract_text_from_shape(Head(shapes))>> ELSE <<>>)
         \o content_parts(Tail(shapes))

convert_slide_to_markdown(slide, slide_number) ==
    <<Part("h2", slide_number, <<>>)>>
    \o (IF slide.title # None /\ strip(slide.title) # <<>>
        THEN <<Part("h3", slide_number, strip(slide.title))>> ELSE <<>>)
    \o (IF content_parts(slide.shapes) # <<>>
        THEN <<Part("text", slide_number, join(<<"\n">>, content_parts(slide.shapes)))>>
        ELSE <<>>)
    \o (IF slide.notes # None /\ strip(slide.notes) # <<>>
        THEN <<Part("notes_label", slide_number, <<>>),
               Part("notes", slide_number, strip(slide.notes))>>
        ELSE <<>>)

(***************************************************************************)
(* xlsx_to_markdown.py: convert_sheet_to_markdown as md_parts              *)
(***************************************************************************)
convert_sheet_to_markdown(rows, unit) ==
    <<Part("h2", unit, <<>>), Part("text", unit, sheet_body(rows))>>

(***************************************************************************)
(* SpecDoc: one document of one kind, converted unit by unit.              *)
(***************************************************************************)
DirectTexts ==
    {<<>>, <<"h", "i">>, <<" ">> \o Repeat("x", Threshold) \o <<"\n">>,
     Repeat("x", Threshold + 1), Fault}
OcrOutcomes == {RenderFault, OcrFault, <<" ">>, <<"o", "c", "r">>}
Pages == [direct : DirectTexts, ocr : OcrOutcomes]

NoTable == <<>>
Shapes ==
    {<<>>,
     <<[text |-> <<" ">>, has_table |-> FALSE, table |-> NoTable]>>,
     <<[text |-> <<"a">>, has_table |-> FALSE, table |-> NoTable]>>,
     <<[text |-> <<>>, has_table |-> TRUE, table |-> <<<<<<"c">>>>>>]>>}
Slides ==
    [fault : {FALSE}, title : {None, <<" ">>, <<"T">>}, shapes : Shapes,
     notes : {None, <<" ">>, <<"n">>}]
    \cup {[fault |-> TRUE, title |-> None, shapes |-> <<>>, notes |-> None]}

SheetRows ==
    {<<>>, <<<<None>>>>, <<<<<<" ">>>>>>, <<<<<<"h">>, None>>, <<None, <<"v">>>>>>}
Sheets == [fault : {FALSE}, rows : SheetRows] \cup {[fault |-> TRUE, rows |-> <<>>]}

Units(k) == IF k = "pdf" THEN Pages ELSE IF k = "pptx" THEN Slides ELSE Sheets
Docs(k) ==
    [units : UNION {[1..n -> Units(k)] : n \in (IF k = "pptx" THEN 0 ELSE 1)..MaxUnits},
     author : IF k = "pdf" THEN BOOLEAN ELSE {FALSE}]

\* md_parts when the unit loop starts.
header_parts(k, d) ==
    <<Part("h1", 0, <<>>), Part("provenance", 0, <<>>)>>
    \o (IF k = "pdf" /\ d.author THEN <<Part("author", 0, <<>>)>> ELSE <<>>)
    \o (IF k = "xlsx" /\ Len(d.units) > 1
        THEN <<Part("toc_heading", 0, <<>>)>>
             \o [i \in 1..Len(d.units) |-> Part("toc_entry", 0, <<>>)]
        ELSE <<>>)
    \o <<Part("rule", 0, <<>>)>>

DocInit ==
    /\ kind \in {"pdf", "pptx", "xlsx"}
    /\ doc \in Docs(kind)
    /\ ocr_available \in (IF kind = "pdf" THEN BOOLEAN ELSE {FALSE})
    /\ unit_idx = 0
    /\ md_parts = header_parts(kind, doc)
    /\ methods_used = [m \in {"text", "ocr", "none"} |-> 0]
    /\ extracted = <<>>
    /\ status = "running"

\* One iteration of `for page_num, page in enumerate(doc, start=1)`.
ConvertPage ==
    /\ kind = "pdf" /\ status = "running" /\ unit_idx < Len(doc.units)
    /\ LET page_num == unit_idx + 1
           r == extract_text_from_page(doc.units[page_num], ocr_available)
       IN  IF r.raised
           THEN /\ status' = "raised"
                /\ UNCHANGED <<unit_idx, md_parts, methods_used, extracted>>
           ELSE /\ extracted' = Append(extracted, [text |-> r.text, method |-> r.method])
                /\ methods_used' = [methods_used EXCEPT ![r.method] = @ + 1]
                /\ md_parts' = md_parts \o page_parts(r.text, page_num, Len(doc.units))
                /\ unit_idx' = page_num
                /\ UNCHANGED status
    /\ UNCHANGED <<kind, doc, ocr_available>>
    /\ UNCHANGED <<textVars, tableVars, batchVars>>

\* One iteration of `for slide_number, slide in enumerate(prs.slides, start=1)`.
ConvertSlide ==
    /\ kind = "pptx" /\ status = "running" /\ unit_idx < Len(doc.units)
    /\ LET slide_number == unit_idx + 1
           slide == doc.units[slide_number]
       IN  IF slide.fault
           THEN status' = "raised" /\ UNCHANGED <<unit_idx, md_parts>>
           ELSE /\ md_parts' = md_parts
                       \o convert_slide_to_markdown(slide, slide_number)
                       \o <<Part("rule", slide_number, <<>>)>>
                /\ unit_idx' = slide_number
                /\ UNCHANGED status
    /\ UNCHANGED <<kind, doc, ocr_available, methods_used, extracted>>
    /\ UNCHANGED <<textVars, tableVars, batchVars>>

\* One iteration of `for sheet_name in wb.sheetnames`.
ConvertSheet ==
    /\ kind = "xlsx" /\ status = "running" /\ unit_idx < Len(doc.units)
    /\ LET n == unit_idx + 1
           sheet == doc.units[n]
       IN  IF sheet.fault
           THEN status' = "raised" /\ UNCHANGED <<unit_idx, md_parts>>
           ELSE /\ md_parts' = md_parts
                       \o convert_sheet_to_markdown(sheet.rows, n)
                       \o <<Part("rule", n, <<>>)>>
                /\ unit_idx' = n
                /\ UNCHANGED status
    /\ UNCHANGED <<kind, doc, ocr_available, methods_used, extracted>>
    /\ UNCHANGED <<textVars, tableVars, batchVars>>

\* After the loop: output_path.write_text(...) and return.
WriteOutput ==
    /\ status = "running" /\ unit_idx = Len(doc.units)
    /\ status' = "written"
    /\ UNCHANGED <<kind, doc, ocr_available, unit_idx, md_parts, methods_used, extracted>>
    /\ UNCHANGED <<textVars, tableVars, batchVars>>

InitDoc == DocInit /\ TextIdle /\ TableIdle /\ BatchIdle
NextDoc == ConvertPage \/ ConvertSlide \/ ConvertSheet \/ WriteOutput
SpecDoc == InitDoc /\ [][NextDoc]_vars

\* What the claims read off md_parts.
of_type(type) == SelectSeq(md_parts, LAMBDA part : part.type = type)
unit_headings == [j \in 1..Len(of_type("h2")) |-> of_type("h2")[j].unit]
unit_rules == Len(of_type("rule")) - 1
parts_of(i) == SelectSeq(md_parts, LAMBDA part : part.unit = i)
part_types(i) == [j \in 1..Len(parts_of(i)) |-> parts_of(i)[j].type]

slide_empty(slide) ==
    /\ slide.title = None \/ strip(slide.title) = <<>>
    /\ content_parts(slide.shapes) = <<>>
    /\ slide.notes = None \/ strip(slide.notes) = <<>>

\* The extraction of processed unit i produced empty text.
unit_empty(i) ==
    IF kind = "pdf" THEN extracted[i].text = <<>>
    ELSE IF kind = "pptx" THEN slide_empty(doc.units[i])
    ELSE all_blank(doc.units[i].rows)

nonempty_units == SelectSeq([i \in 1..unit_idx |-> i], LAMBDA i : ~unit_empty(i))

\* A library fault is raised while page i is extracted.
fault_raised(page) ==
    \/ page.direct = Fault
    \/ /\ ocr_available
       /\ Len(strip(page.direct)) <= Threshold
       /\ page.ocr \in {RenderFault, OcrFault}

\* C2: a fault of one unit never leaves the extractor: the conversion never
\* ends by an exception, and a page whose extraction hit a fault yields the
\* empty result tagged none.
C2_UnitFaultContained ==
    /\ status # "raised"
    /\ kind = "pdf" =>
           \A i \in 1..Len(extracted) :
               fault_raised(doc.units[i]) =>
                   extracted[i] = [text |-> <<>>, method |-> "none"]

exactly_threshold(page) ==
    page.direct # Fault /\ Len(strip(page.direct)) = Threshold

\* C3 as stated: a page with exactly 50 characters of direct text is tagged
\* text and yields its direct text, whatever recognition does.
C3_ExactThresholdDirect ==
    kind = "pdf" =>
        \A i \in 1..Len(extracted) :
            exactly_threshold(doc.units[i]) =>
                extracted[i] = [text |-> strip(doc.units[i].direct), method |-> "text"]

recognised(page) ==
    /\ ocr_available
    /\ page.ocr \notin {RenderFault, OcrFault}
    /\ strip(page.ocr) # <<>>

\* C3 amended: such a page is tagged ocr with the recognised text when
\* recognition is present and returns non-empty text, and is tagged text
\* with its direct text when recognition is absent, fails or returns
\* nothing.
C3_ExactThresholdFallsThrough ==
    kind = "pdf" =>
        \A i \in 1..Len(extracted) :
            exactly_threshold(doc.units[i]) =>
                extracted[i] =
                    IF recognised(doc.units[i])
                    THEN [text |-> strip(doc.units[i].ocr), method |-> "ocr"]
                    ELSE [text |-> strip(doc.units[i].direct), method |-> "text"]

\* Two pages of exactly 50 characters were extracted, one recognised and
\* one whose recognition failed.
C3_Witness ==
    /\ kind = "pdf" /\ Len(extracted) = 2
    /\ exactly_threshold(doc.units[1]) /\ exactly_threshold(doc.units[2])
    /\ recognised(doc.units[1]) /\ extracted[1].method = "ocr"
    /\ ocr_available /\ doc.units[2].ocr = OcrFault /\ extracted[2].method = "text"

Stems == {"a", "b"}
Patterns(sc) ==
    IF sc = "pdf" THEN <<"pdf">>
    ELSE IF sc = "pptx" THEN <<"pptx">>
    ELSE <<"xlsx", "xls">>
pattern_exts(sc) == {Patterns(sc)[i] : i \in 1..Len(Patterns(sc))}
Names(sc) == [stem : Stems, ext : pattern_exts(sc) \cup {"txt"}]
Outcomes == {"ok", "open_raises", "extract_raises", "write_raises"}

Folders(sc) ==
    UNION {[S -> Outcomes] : S \in {T \in SUBSET Names(sc) : Cardinality(T) <= MaxFiles}}

matching(sc, dir) == {f \in DOMAIN dir : f.ext \in pattern_exts(sc)}

\* folder.glob(pattern): the matching entries, in the order the directory
\* listing yields them, which nothing fixes.
Orderings(S) ==
    {p \in [1..Cardinality(S) -> S] : \A i, j \in 1..Cardinality(S) : p[i] = p[j] => i = j}
glob(dir, ext) == Orderings({f \in DOMAIN dir : f.ext = ext})

\* list(folder.glob(p1)) + list(folder.glob(p2)) + ...
RECURSIVE glob_all(_, _)
glob_all(dir, patterns) ==
    IF patterns = <<>> THEN {<<>>}
    ELSE {p \o q : p \in glob(dir, Head(patterns)), q \in glob_all(dir, Tail(patterns))}

BatchInit ==
    /\ script \in {"pdf", "pptx", "xlsx"}
    /\ is_dir \in BOOLEAN
    /\ folder \in (IF is_dir THEN Folders(script) ELSE {<<>>})
    /\ files = <<>>
    /\ file_idx = 0
    /\ converted = <<>>
    /\ log = <<>>
    /\ bstatus = "called"

\* Entry of batch_convert: the directory test, the glob, the early return.
ListFiles ==
    /\ bstatus = "called"
    /\ IF ~is_dir
       THEN bstatus' = "raised" /\ UNCHANGED files
       ELSE /\ files' \in glob_all(folder, Patterns(script))
            /\ bstatus' = IF files' = <<>> THEN "returned" ELSE "looping"
    /\ UNCHANGED <<script, is_dir, folder, file_idx, converted, log>>
    /\ UNCHANGED <<textVars, tableVars, docVars>>

\* A plausible slip: the loop body without its try/except.
ConvertFileUnprotected ==
    /\ bstatus = "looping" /\ file_idx < Len(files)
    /\ LET file == files[file_idx + 1]
       IN  IF folder[file] = "ok"
           THEN /\ converted' = Append(converted, file.stem)
                /\ log' = Append(log, [file |-> file, ok |-> TRUE])
                /\ file_idx' = file_idx + 1
                /\ UNCHANGED bstatus
           ELSE /\ bstatus' = "raised"
                /\ UNCHANGED <<converted, log, file_idx>>
    /\ UNCHANGED <<script, is_dir, folder, files>>
    /\ UNCHANGED <<textVars, tableVars, docVars>>

\* One iteration of the loop: the conversion inside try, the except branch
\* printing the error.  log is what the iteration prints: the file and
\* whether it was converted.
ConvertFile ==
    /\ bstatus = "looping" /\ file_idx < Len(files)
    /\ LET file == files[file_idx + 1]
       IN  /\ converted' = IF folder[file] = "ok"
                           THEN Append(converted, file.stem)
                           ELSE converted
           /\ log' = Append(log, [file |-> file, ok |-> folder[file] = "ok"])
    /\ file_idx' = file_idx + 1
    /\ UNCHANGED <<script, is_dir, folder, files, bstatus>>
    /\ UNCHANGED <<textVars, tableVars, docVars>>

\* After the loop: the summary line and `return converted`.
ReturnConverted ==
    /\ bstatus = "looping" /\ file_idx = Len(files)
    /\ bstatus' = "returned"
    /\ UNCHANGED <<script, is_dir, folder, files, file_idx, converted, log>>
    /\ UNCHANGED <<textVars, tableVars, docVars>>

InitBatch == BatchInit /\ TextIdle /\ TableIdle /\ DocIdle
NextBatch == ListFiles \/ ConvertFile \/ ReturnConverted
SpecBatch == InitBatch /\ [][NextBatch]_vars

attempts(f) == Cardinality({i \in 1..Len(log) : log[i].file = f})
ok_stems == SelectSeq(log, LAMBDA e : e.ok)

\* C1: with a directory, no conversion failure leaves batch_convert, every
\* matching file is attempted exactly once and no other file is, and every
\* file whose conversion succeeds is among the converted, whatever failed
\* before it.
C1_BatchIsolation ==
    /\ (bstatus # Idle /\ is_dir) => bstatus # "raised"
    /\ bstatus = "returned" =>
           /\ \A f \in DOMAIN folder :
                  attempts(f) = IF f \in matching(script, folder) THEN 1 ELSE 0
           /\ \A i \in 1..Len(log) : log[i].ok = (folder[log[i].file] = "ok")
           /\ converted = [i \in 1..Len(ok_stems) |-> ok_stems[i].file.stem]

\* A batch returned after a failed file was followed by a converted one.
C1_Witness ==
    /\ bstatus = "returned"
    /\ \E i, j \in 1..Len(log) : i < j /\ ~log[i].ok /\ log[j].ok
    /\ Len(converted) >= 1

\* File names compared as strings: "a..." before "b...", "x.xls" before
\* "x.xlsx".
StemRank(st) == IF st = "a" THEN 1 ELSE 2
ExtRank(e) == IF e = "xlsx" THEN 2 ELSE 1
name_less(f, g) ==
    \/ StemRank(f.stem) < StemRank(g.stem)
    \/ f.stem = g.stem /\ ExtRank(f.ext) < ExtRank(g.ext)

\* C6: the files are processed, and their outcomes reported, in lexical
\* file-name order.
C6_LexicalOrder ==
    bstatus = "returned" =>
        \A i, j \in 1..Len(log) : i < j => name_less(log[i].file, log[j].file)

====
